---- MODULE Spec2Model ----
(***************************************************************************)
(* A model of the protocol layer of ledger_installer (src/src/main.rs):    *)
(*   - the relay engine query_via_websocket (specification Spec),          *)
(*   - the command codec deser_apdu_command (specification CodecSpec),     *)
(*   - the app-inventory decoder list_installed_apps (AppsSpec, and        *)
(*     SplitSpec for an inventory whose pages are fixed beforehand),       *)
(*   - the device-identity decoder DeviceInfo::new (InfoSpec).             *)
(* Text is modelled as a sequence of one-character strings, a byte as an   *)
(* integer in 0..255.                                                      *)
(***************************************************************************)
EXTENDS Integers, Sequences, FiniteSets, TLC

VARIABLES
    \* ---- query_via_websocket
    rpc,        \* where the engine is: "read", "exchange", "bulk", "done"
    msg,        \* the envelope being handled (HsmMessage)
    command,    \* the decoded command of an 'exchange' whose device call is pending
    bulkIdx,    \* index into msg.data.l of the bulk entry the for loop is at
    out,        \* messages handed to socket.send since the last socket.read
    xlog,       \* calls of ledger_api.exchange since the last socket.read
    resp,       \* the answer bound to `resp' in 'exchange' handling
    result,     \* what query_via_websocket returned, "Running" before it returns
    nreads,     \* number of socket.read calls made
    errRun,     \* number of 'exchange' envelopes in a row answered with "error"
    frame,      \* what the last socket.read returned: a frame kind or "ReadError"
    text,       \* the raw text of the frame socket.read returned last
    errText,    \* the message text the returned error carries, NoText if none
    \* ---- deser_apdu_command round trip
    cpc,        \* "idle", "start", "encoded", "decoded"
    cmdIn,      \* the command that is encoded
    hexText,    \* the hex text of its frame
    decoded,    \* what deser_apdu_command returned for hexText
    \* ---- list_installed_apps
    apc,        \* "idle", "list", "page", "record", "continue", "done"
    data,       \* payload of the current answer
    cur,        \* the cursor i into data (0-based, as in the source)
    installed_apps, \* the list built so far
    aresult,    \* what list_installed_apps returned; tag "Running" before
    npages,     \* number of device exchanges made by list_installed_apps
    reqs,       \* the commands list_installed_apps has sent to the device, in order
    served,     \* the payloads the device has returned, in order
    device,     \* the device: free to answer any page, or serving a fixed plan
    \* ---- DeviceInfo::new
    ipc,        \* "idle", "get", "header", "version", "flags", "part1", "part2",
                \* "short", "mcu", "done"
    sent,       \* the fields the device put into its answer to GET_VERSION
    ver_answer, \* ver_answer.data(): the payload received
    vi,         \* the cursor i into the payload (0-based, as in the source)
    loc,        \* the locals read so far: target_id, version, flags, part1, ...
    dresult,    \* what DeviceInfo::new returned; tag "Running" before
    reach       \* the highest position of the payload read so far (1-based)

relayVars == <<rpc, msg, command, bulkIdx, out, xlog, resp, result, nreads, errRun, frame,
              text, errText>>
codecVars == <<cpc, cmdIn, hexText, decoded>>
appsVars  == <<apc, data, cur, installed_apps, aresult, npages, reqs, served, device>>
infoVars  == <<ipc, sent, ver_answer, vi, loc, dresult, reach>>
vars == <<relayVars, codecVars, appsVars, infoVars>>

----------------------------------------------------------------------------
\* Bounds of the model.
MaxReads == 3       \* socket.read calls per session
MaxBulk == 3        \* entries of a bulk command list
MaxPayload == 2     \* payload bytes of an encoded command
MaxPages == 3       \* device exchanges of one list_installed_apps call
MaxRecords == 2     \* records of an inventory that is split over pages

\* Program constants.
StatusCode_OK == 36864      \* 0x9000
U8Max == 255

----------------------------------------------------------------------------
\* hex::encode / hex::decode

HexDigits == <<"0","1","2","3","4","5","6","7","8","9","a","b","c","d","e","f">>

\* hex::encode: two lower-case digits per byte, high nibble first.
HexEncode(bytes) ==
    [k \in 1..(2 * Len(bytes)) |->
        IF k % 2 = 1 THEN HexDigits[(bytes[(k + 1) \div 2] \div 16) + 1]
        ELSE HexDigits[(bytes[k \div 2] % 16) + 1]]

\* Value of one hex digit, -1 when the character is none (hex::decode accepts
\* both cases).
HexVal(c) ==
    CASE c = "0" -> 0  [] c = "1" -> 1  [] c = "2" -> 2  [] c = "3" -> 3
      [] c = "4" -> 4  [] c = "5" -> 5  [] c = "6" -> 6  [] c = "7" -> 7
      [] c = "8" -> 8  [] c = "9" -> 9
      [] c \in {"a", "A"} -> 10 [] c \in {"b", "B"} -> 11
      [] c \in {"c", "C"} -> 12 [] c \in {"d", "D"} -> 13
      [] c \in {"e", "E"} -> 14 [] c \in {"f", "F"} -> 15
      [] OTHER -> -1

HexPairs(s) ==
    [k \in 1..(Len(s) \div 2) |-> HexVal(s[2 * k - 1]) * 16 + HexVal(s[2 * k])]

\* hex::decode: fails on an odd length or on a character that is no hex digit.
HexDecode(s) ==
    IF Len(s) % 2 # 0 \/ \E k \in 1..Len(s) : HexVal(s[k]) < 0
    THEN [ok |-> FALSE, bytes |-> <<>>]
    ELSE [ok |-> TRUE, bytes |-> HexPairs(s)]

----------------------------------------------------------------------------
\* deser_apdu_command

NoCommand == [cla |-> 0, ins |-> 0, p1 |-> 0, p2 |-> 0, data |-> <<>>]

\* deser_apdu_command with the payload slice starting one byte early.
deser_apdu_command_slice(hex_str) ==
    LET d == HexDecode(hex_str)
        bytes == d.bytes
    IN  IF ~d.ok THEN [ok |-> FALSE, err |-> "FromHexError", cmd |-> NoCommand]
        ELSE IF Len(bytes) < 5
        THEN [ok |-> FALSE, err |-> "Invalid command", cmd |-> NoCommand]
        ELSE IF Len(bytes) # 5 + bytes[5]
        THEN [ok |-> FALSE, err |-> "Invalid command", cmd |-> NoCommand]
        ELSE [ok |-> TRUE, err |-> "",
              cmd |-> [cla |-> bytes[1], ins |-> bytes[2], p1 |-> bytes[3],
                       p2 |-> bytes[4], data |-> SubSeq(bytes, 5, Len(bytes))]]

\* deser_apdu_command without the check of the declared payload length.
deser_apdu_command_nolen(hex_str) ==
    LET d == HexDecode(hex_str)
        bytes == d.bytes
    IN  IF ~d.ok THEN [ok |-> FALSE, err |-> "FromHexError", cmd |-> NoCommand]
        ELSE IF Len(bytes) < 5
        THEN [ok |-> FALSE, err |-> "Invalid command", cmd |-> NoCommand]
        ELSE [ok |-> TRUE, err |-> "",
              cmd |-> [cla |-> bytes[1], ins |-> bytes[2], p1 |-> bytes[3],
                       p2 |-> bytes[4], data |-> SubSeq(bytes, 6, Len(bytes))]]

deser_apdu_command(hex_str) ==
    LET d == HexDecode(hex_str)
        bytes == d.bytes
    IN  IF ~d.ok THEN [ok |-> FALSE, err |-> "FromHexError", cmd |-> NoCommand]
        ELSE IF Len(bytes) < 5
        THEN [ok |-> FALSE, err |-> "Invalid command", cmd |-> NoCommand]
        ELSE IF Len(bytes) # 5 + bytes[5]
        THEN [ok |-> FALSE, err |-> "Invalid command", cmd |-> NoCommand]
        ELSE [ok |-> TRUE, err |-> "",
              cmd |-> [cla |-> bytes[1], ins |-> bytes[2], p1 |-> bytes[3],
                       p2 |-> bytes[4], data |-> SubSeq(bytes, 6, Len(bytes))]]

----------------------------------------------------------------------------
\* The relay engine: query_via_websocket

\* HsmMessageData: absent, Command(h) or CommandList(l).
NoData == [kind |-> "None", h |-> <<>>, l |-> <<>>]
Command(h) == [kind |-> "Command", h |-> h, l |-> <<>>]
CommandList(l) == [kind |-> "CommandList", h |-> <<>>, l |-> l]

NoMsg == [query |-> "", nonce |-> 0, data |-> NoData]

\* Inputs of the model: hex texts the remote authority sends.
HexGetVersion == <<"e","0","0","1","0","0","0","0","0","0">>            \* e0 01 00 00 00
HexOpenApp == <<"E","0","d","8","0","0","0","0","0","1","a","b">>       \* e0 d8 00 00 01 ab
HexShort == <<"e","0","0","1","0","0","0","0","0","1">>                 \* declares 1 byte, has 0
HexNotHex == <<"z","z">>
HexEmpty == <<>>
HexOdd == <<"e","0","0","1","0","0","0","0","0","0","0">>               \* 11 characters
HexLong == <<"e","0","0","1","0","0","0","0","0","0","a","b">>          \* declares 0, has 1
HexFour == <<"e","0","0","1","0","0","0","0">>                          \* 4 bytes
HexBadTail == <<"e","0","0","1","0","0","0","0","0","g">>               \* 'g' is no digit
HexTwo == <<"e","0","d","8","0","0","0","0","0","2","0","1","F","f">>   \* e0 d8 00 00 02 01 ff

ExchangeTexts ==
    {HexGetVersion, HexOpenApp, HexShort, HexNotHex, HexEmpty,
     HexOdd, HexLong, HexFour, HexBadTail, HexTwo}
BulkTexts == {HexGetVersion, HexOpenApp, HexShort, HexEmpty}

SeqsUpTo(S, n) == UNION {[1..k -> S] : k \in 0..n}

DataValues ==
    {NoData} \cup {Command(h) : h \in ExchangeTexts}
             \cup {CommandList(l) : l \in SeqsUpTo(BulkTexts, MaxBulk)}

Queries == {"exchange", "bulk", "success", "error", "warning", "other"}
Nonces == {1, 7}

\* The envelopes serde_json::from_str can yield. The data of an envelope
\* that is neither 'exchange' nor 'bulk' is never looked at. The nonce is
\* only copied into the reply, so command lists of two entries or more come
\* with one nonce.
OtherData == {NoData, Command(HexGetVersion), CommandList(<<HexGetVersion>>)}
Envelopes ==
    [query : {"exchange", "bulk"}, nonce : Nonces,
     data : {d \in DataValues : Len(d.l) <= 1}]
    \cup [query : {"exchange", "bulk"}, nonce : {7},
          data : {d \in DataValues : Len(d.l) > 1}]
    \cup [query : Queries \ {"exchange", "bulk"}, nonce : Nonces, data : OtherData]

\* The text of a Text frame: the envelope it parses to, and `extra', which
\* tells apart texts that parse to the same envelope (serde ignores unknown
\* fields and white space). The text is used only in the messages of the
\* 'error', 'warning' and unsupported-query arms.
Extras(query) == IF query \in {"error", "warning", "other"} THEN {0, 1} ELSE {0}
TextFrames ==
    UNION {{[env |-> m, extra |-> x] : x \in Extras(m.query)} : m \in Envelopes}
NoText == [env |-> NoMsg, extra |-> 0]

\* serde_json::from_str of a text that is a valid envelope.
from_str(t) == t.env

\* Frame kinds of tungstenite::Message other than Text.
NonTextKinds == {"Binary", "Ping", "Pong", "Close", "Frame"}

\* What the device transport can answer: a transport failure, or the raw
\* answer payload ++ status (two bytes, big endian).
StatusBytes(s) == <<s \div 256, s % 256>>
Statuses == {StatusCode_OK, 27013}          \* 0x9000, 0x6985
Payloads == {<<>>, <<171>>, <<1, 255>>}     \* none, 0xAB, 0x01 0xFF
TransportFailure == [ok |-> FALSE, raw |-> <<>>]
DeviceAnswers ==
    {TransportFailure}
    \cup {[ok |-> TRUE, raw |-> p \o StatusBytes(s)] : p \in Payloads, s \in Statuses}

\* APDUAnswer::retcode and APDUAnswer::data of a raw answer.
retcode(raw) == raw[Len(raw) - 1] * 256 + raw[Len(raw)]
answer_data(raw) == SubSeq(raw, 1, Len(raw) - 2)

\* The reply built for an 'exchange' with the raw answer hex-encoded whole.
ws_resp_exchange_raw(nonce, raw) ==
    [nonce |-> nonce,
     response |-> IF retcode(raw) = StatusCode_OK THEN "success" ELSE "error",
     data |-> HexEncode(raw)]

\* The reply to an 'exchange' envelope.
ws_resp_exchange(nonce, raw) ==
    [nonce |-> nonce,
     response |-> IF retcode(raw) = StatusCode_OK THEN "success" ELSE "error",
     data |-> HexEncode(answer_data(raw))]

\* The reply to a 'bulk' envelope.
ws_resp_bulk(nonce) == [nonce |-> nonce, response |-> "success", data |-> <<>>]

RelayInit ==
    /\ rpc = "read"
    /\ msg = NoMsg
    /\ command = NoCommand
    /\ bulkIdx = 0
    /\ out = <<>>
    /\ xlog = <<>>
    /\ resp = <<>>
    /\ result = "Running"
    /\ nreads = 0
    /\ errRun = 0
    /\ frame = "None"
    /\ text = NoText
    /\ errText = NoText

\* The loop is at socket.read and the model's bound on reads is not used up.
CanRead == rpc = "read" /\ nreads < MaxReads

\* query_via_websocket returns r, with a message that carries the text t.
Fail(r, t) ==
    /\ rpc' = "done"
    /\ result' = r
    /\ errText' = t

\* query_via_websocket returns r, with a message that holds no frame text.
Return(r) == Fail(r, NoText)

\* A socket.read call returns a frame of kind k, parsed as m when it is Text.
NewMessage(k, m) ==
    /\ frame' = k
    /\ msg' = m
    /\ nreads' = nreads + 1
    /\ out' = <<>>
    /\ xlog' = <<>>
    /\ resp' = <<>>
    /\ command' = NoCommand
    /\ bulkIdx' = 0

\* socket.read()? fails.
ReadFail ==
    /\ CanRead
    /\ NewMessage("ReadError", NoMsg) /\ text' = NoText
    /\ Return("ChannelError")
    /\ errRun' = 0
    /\ UNCHANGED <<codecVars, appsVars, infoVars>>

\* RecvNonText with the frame skipped and the loop going on.
RecvNonText_ignore ==
    /\ CanRead
    /\ \E k \in NonTextKinds :
        /\ NewMessage(k, NoMsg) /\ text' = NoText
        /\ errRun' = 0
        /\ UNCHANGED <<rpc, result, errText>>
    /\ UNCHANGED <<codecVars, appsVars, infoVars>>

\* A frame that is not Text.
RecvNonText ==
    /\ CanRead
    /\ \E k \in NonTextKinds :
        /\ NewMessage(k, NoMsg) /\ text' = NoText
        /\ Return("UnsupportedFrame")
        /\ errRun' = 0
    /\ UNCHANGED <<codecVars, appsVars, infoVars>>

\* A Text frame that serde_json::from_str rejects.
RecvBadJson ==
    /\ CanRead
    /\ NewMessage("Text", NoMsg) /\ text' = NoText
    /\ Return("JsonError")
    /\ errRun' = 0
    /\ UNCHANGED <<codecVars, appsVars, infoVars>>

\* query == "exchange": up to the call of ledger_api.exchange.
RecvExchange ==
    /\ CanRead
    /\ \E t \in TextFrames : \E m \in {from_str(t)} :
        /\ m.query = "exchange"
        /\ frame' = "Text" /\ text' = t /\ msg' = m /\ nreads' = nreads + 1
        /\ out' = <<>> /\ xlog' = <<>> /\ resp' = <<>> /\ bulkIdx' = 0
        /\ IF m.data.kind # "Command"
           THEN /\ Return("ProtocolViolation")
                /\ command' = NoCommand /\ errRun' = 0
           ELSE LET c == deser_apdu_command(m.data.h)
                IN  IF ~c.ok
                    THEN /\ Return("MalformedCommand")
                         /\ command' = NoCommand /\ errRun' = 0
                    ELSE /\ rpc' = "exchange"
                         /\ command' = c.cmd
                         /\ UNCHANGED <<result, errText, errRun>>
    /\ UNCHANGED <<codecVars, appsVars, infoVars>>

\* One call of ledger_api.exchange(c) that returned ans: the command, whether
\* an answer came back and the answer's status (0 when none came back).
Exchanged(c, ans) ==
    [cmd |-> c, ok |-> ans.ok, status |-> IF ans.ok THEN retcode(ans.raw) ELSE 0]

\* ExchangeDone with a status other than 0x9000 treated as fatal once the
\* "error" reply is sent.
ExchangeDone_fatal ==
    /\ rpc = "exchange"
    /\ \E ans \in DeviceAnswers :
        /\ xlog' = Append(xlog, Exchanged(command, ans))
        /\ IF ~ans.ok
           THEN /\ Return("TransportError")
                /\ errRun' = 0
                /\ UNCHANGED <<out, resp>>
           ELSE \E sendOk \in BOOLEAN :
                LET ws_resp == ws_resp_exchange(msg.nonce, ans.raw)
                IN  /\ resp' = ans.raw
                    /\ out' = Append(out, ws_resp)
                    /\ errRun' = 0
                    /\ IF ~sendOk THEN Return("ChannelError")
                       ELSE IF ws_resp.response = "error" THEN Return("DeviceError")
                       ELSE rpc' = "read" /\ UNCHANGED <<result, errText>>
    /\ UNCHANGED <<msg, command, bulkIdx, nreads, frame, text>>
    /\ UNCHANGED <<codecVars, appsVars, infoVars>>

\* ExchangeDone with a transport failure answered by an "error" reply and the
\* loop going on.
ExchangeDone_soft ==
    /\ rpc = "exchange"
    /\ \E ans \in DeviceAnswers :
        /\ xlog' = Append(xlog, Exchanged(command, ans))
        /\ IF ~ans.ok
           THEN /\ out' = Append(out, [nonce |-> msg.nonce, response |-> "error",
                                       data |-> <<>>])
                /\ errRun' = errRun + 1
                /\ rpc' = "read"
                /\ UNCHANGED <<resp, result, errText>>
           ELSE \E sendOk \in BOOLEAN :
                LET ws_resp == ws_resp_exchange(msg.nonce, ans.raw)
                IN  /\ resp' = ans.raw
                    /\ out' = Append(out, ws_resp)
                    /\ errRun' = IF ws_resp.response = "error" /\ sendOk
                                 THEN errRun + 1 ELSE 0
                    /\ IF sendOk
                       THEN rpc' = "read" /\ UNCHANGED <<result, errText>>
                       ELSE Return("ChannelError")
    /\ UNCHANGED <<msg, command, bulkIdx, nreads, frame, text>>
    /\ UNCHANGED <<codecVars, appsVars, infoVars>>

\* query == "exchange", from the return of ledger_api.exchange: a transport
\* failure is propagated by `?'; otherwise the reply is built and handed to
\* socket.send, whose failure is propagated by `?' too.
ExchangeDone ==
    /\ rpc = "exchange"
    /\ \E ans \in DeviceAnswers :
        /\ xlog' = Append(xlog, Exchanged(command, ans))
        /\ IF ~ans.ok
           THEN /\ Return("TransportError")
                /\ errRun' = 0
                /\ UNCHANGED <<out, resp>>
           ELSE \E sendOk \in BOOLEAN :
                LET ws_resp == ws_resp_exchange(msg.nonce, ans.raw)
                IN  /\ resp' = ans.raw
                    /\ out' = Append(out, ws_resp)
                    /\ errRun' = IF ws_resp.response = "error" /\ sendOk
                                 THEN errRun + 1 ELSE 0
                    /\ IF sendOk
                       THEN rpc' = "read" /\ UNCHANGED <<result, errText>>
                       ELSE Return("ChannelError")
    /\ UNCHANGED <<msg, command, bulkIdx, nreads, frame, text>>
    /\ UNCHANGED <<codecVars, appsVars, infoVars>>

\* RecvBulk with data of the wrong shape taken as an empty command list.
RecvBulk_lenient ==
    /\ CanRead
    /\ \E t \in TextFrames : \E m \in {from_str(t)} :
        /\ m.query = "bulk"
        /\ NewMessage("Text", m) /\ text' = t
        /\ errRun' = 0
        /\ rpc' = "bulk" /\ UNCHANGED <<result, errText>>
    /\ UNCHANGED <<codecVars, appsVars, infoVars>>

\* query == "bulk": up to the for loop.
RecvBulk ==
    /\ CanRead
    /\ \E t \in TextFrames : \E m \in {from_str(t)} :
        /\ m.query = "bulk"
        /\ NewMessage("Text", m) /\ text' = t
        /\ errRun' = 0
        /\ IF m.data.kind # "CommandList"
           THEN Return("ProtocolViolation")
           ELSE rpc' = "bulk" /\ UNCHANGED <<result, errText>>
    /\ UNCHANGED <<codecVars, appsVars, infoVars>>

\* The bulk entry the for loop is at.
BulkEntry == msg.data.l[bulkIdx + 1]

\* BulkStep with a transport failure tolerated per command.
BulkStep_tolerant ==
    /\ rpc = "bulk"
    /\ bulkIdx < Len(msg.data.l)
    /\ IF msg.data.l[bulkIdx + 1] = <<>>
       THEN /\ bulkIdx' = bulkIdx + 1
            /\ UNCHANGED <<rpc, result, errText, xlog>>
       ELSE LET c == deser_apdu_command(msg.data.l[bulkIdx + 1])
            IN  IF ~c.ok
                THEN Return("MalformedCommand") /\ UNCHANGED <<bulkIdx, xlog>>
                ELSE \E ans \in DeviceAnswers :
                     /\ xlog' = Append(xlog, Exchanged(c.cmd, ans))
                     /\ bulkIdx' = bulkIdx + 1 /\ UNCHANGED <<rpc, result, errText>>
    /\ UNCHANGED <<msg, command, out, resp, nreads, errRun, frame, text>>
    /\ UNCHANGED <<codecVars, appsVars, infoVars>>

\* BulkStep with an empty entry ending the loop instead of being skipped.
BulkStep_break ==
    /\ rpc = "bulk"
    /\ bulkIdx < Len(msg.data.l)
    /\ IF msg.data.l[bulkIdx + 1] = <<>>
       THEN /\ bulkIdx' = Len(msg.data.l)
            /\ UNCHANGED <<rpc, result, errText, xlog>>
       ELSE LET c == deser_apdu_command(msg.data.l[bulkIdx + 1])
            IN  IF ~c.ok
                THEN Return("MalformedCommand") /\ UNCHANGED <<bulkIdx, xlog>>
                ELSE \E ans \in DeviceAnswers :
                     /\ xlog' = Append(xlog, Exchanged(c.cmd, ans))
                     /\ IF ~ans.ok
                        THEN Return("TransportError") /\ UNCHANGED bulkIdx
                        ELSE bulkIdx' = bulkIdx + 1 /\ UNCHANGED <<rpc, result, errText>>
    /\ UNCHANGED <<msg, command, out, resp, nreads, errRun, frame, text>>
    /\ UNCHANGED <<codecVars, appsVars, infoVars>>

\* BulkStep with a status other than 0x9000 aborting the session.
BulkStep_status ==
    /\ rpc = "bulk"
    /\ bulkIdx < Len(msg.data.l)
    /\ IF msg.data.l[bulkIdx + 1] = <<>>
       THEN /\ bulkIdx' = bulkIdx + 1
            /\ UNCHANGED <<rpc, result, errText, xlog>>
       ELSE LET c == deser_apdu_command(msg.data.l[bulkIdx + 1])
            IN  IF ~c.ok
                THEN Return("MalformedCommand") /\ UNCHANGED <<bulkIdx, xlog>>
                ELSE \E ans \in DeviceAnswers :
                     /\ xlog' = Append(xlog, Exchanged(c.cmd, ans))
                     /\ IF ~ans.ok
                        THEN Return("TransportError") /\ UNCHANGED bulkIdx
                        ELSE IF retcode(ans.raw) # StatusCode_OK
                        THEN Return("DeviceError") /\ UNCHANGED bulkIdx
                        ELSE bulkIdx' = bulkIdx + 1 /\ UNCHANGED <<rpc, result, errText>>
    /\ UNCHANGED <<msg, command, out, resp, nreads, errRun, frame, text>>
    /\ UNCHANGED <<codecVars, appsVars, infoVars>>

\* One iteration of `for cmd_hex in commands'.
BulkStep ==
    /\ rpc = "bulk"
    /\ bulkIdx < Len(msg.data.l)
    /\ IF BulkEntry = <<>>
       THEN /\ bulkIdx' = bulkIdx + 1
            /\ UNCHANGED <<rpc, result, errText, xlog>>
       ELSE LET c == deser_apdu_command(BulkEntry)
            IN  IF ~c.ok
                THEN Return("MalformedCommand") /\ UNCHANGED <<bulkIdx, xlog>>
                ELSE \E ans \in DeviceAnswers :
                     /\ xlog' = Append(xlog, Exchanged(c.cmd, ans))
                     /\ IF ~ans.ok
                        THEN Return("TransportError") /\ UNCHANGED bulkIdx
                        ELSE bulkIdx' = bulkIdx + 1 /\ UNCHANGED <<rpc, result, errText>>
    /\ UNCHANGED <<msg, command, out, resp, nreads, errRun, frame, text>>
    /\ UNCHANGED <<codecVars, appsVars, infoVars>>

\* After the for loop: the completion reply.
BulkDone ==
    /\ rpc = "bulk"
    /\ bulkIdx = Len(msg.data.l)
    /\ out' = Append(out, ws_resp_bulk(msg.nonce))
    /\ \E sendOk \in BOOLEAN :
        IF sendOk THEN rpc' = "read" /\ UNCHANGED <<result, errText>>
        ELSE Return("ChannelError")
    /\ UNCHANGED <<msg, command, bulkIdx, xlog, resp, nreads, errRun, frame, text>>
    /\ UNCHANGED <<codecVars, appsVars, infoVars>>

\* RecvSuccess with the loop going on.
RecvSuccess_continue ==
    /\ CanRead
    /\ \E t \in TextFrames : \E m \in {from_str(t)} :
        /\ m.query = "success"
        /\ NewMessage("Text", m) /\ text' = t
        /\ errRun' = 0
        /\ UNCHANGED <<rpc, result, errText>>
    /\ UNCHANGED <<codecVars, appsVars, infoVars>>

\* query == "success".
RecvSuccess ==
    /\ CanRead
    /\ \E t \in TextFrames : \E m \in {from_str(t)} :
        /\ m.query = "success"
        /\ NewMessage("Text", m) /\ text' = t
        /\ errRun' = 0
        /\ Return("Ok")
    /\ UNCHANGED <<codecVars, appsVars, infoVars>>

\* RecvError with the error built from the parsed envelope, not the text read.
RecvError_reserialized ==
    /\ CanRead
    /\ \E t \in TextFrames : \E m \in {from_str(t)} :
        /\ m.query = "error"
        /\ NewMessage("Text", m) /\ text' = t
        /\ errRun' = 0
        /\ Fail("ErrorQuery", [env |-> m, extra |-> 0])
    /\ UNCHANGED <<codecVars, appsVars, infoVars>>

\* query == "error".
RecvError ==
    /\ CanRead
    /\ \E t \in TextFrames : \E m \in {from_str(t)} :
        /\ m.query = "error"
        /\ NewMessage("Text", m) /\ text' = t
        /\ errRun' = 0
        /\ Fail("ErrorQuery", t)
    /\ UNCHANGED <<codecVars, appsVars, infoVars>>

\* RecvWarning with the warning treated as fatal.
RecvWarning_fatal ==
    /\ CanRead
    /\ \E t \in TextFrames : \E m \in {from_str(t)} :
        /\ m.query = "warning"
        /\ NewMessage("Text", m) /\ text' = t
        /\ errRun' = 0
        /\ Return("WarningQuery")
    /\ UNCHANGED <<codecVars, appsVars, infoVars>>

\* RecvWarning with the warning acknowledged on the channel.
RecvWarning_reply ==
    /\ CanRead
    /\ \E t \in TextFrames : \E m \in {from_str(t)} :
        /\ m.query = "warning"
        /\ frame' = "Text" /\ text' = t /\ msg' = m /\ nreads' = nreads + 1
        /\ out' = <<ws_resp_bulk(m.nonce)>>
        /\ xlog' = <<>> /\ resp' = <<>> /\ command' = NoCommand /\ bulkIdx' = 0
        /\ errRun' = 0
        /\ UNCHANGED <<rpc, result, errText>>
    /\ UNCHANGED <<codecVars, appsVars, infoVars>>

\* query == "warning".
RecvWarning ==
    /\ CanRead
    /\ \E t \in TextFrames : \E m \in {from_str(t)} :
        /\ m.query = "warning"
        /\ NewMessage("Text", m) /\ text' = t
        /\ errRun' = 0
        /\ UNCHANGED <<rpc, result, errText>>
    /\ UNCHANGED <<codecVars, appsVars, infoVars>>

\* RecvOther with the unknown query ignored.
RecvOther_ignore ==
    /\ CanRead
    /\ \E t \in TextFrames : \E m \in {from_str(t)} :
        /\ m.query \notin {"exchange", "bulk", "success", "error", "warning"}
        /\ NewMessage("Text", m) /\ text' = t
        /\ errRun' = 0
        /\ UNCHANGED <<rpc, result, errText>>
    /\ UNCHANGED <<codecVars, appsVars, infoVars>>

\* Any other query value.
RecvOther ==
    /\ CanRead
    /\ \E t \in TextFrames : \E m \in {from_str(t)} :
        /\ m.query \notin {"exchange", "bulk", "success", "error", "warning"}
        /\ NewMessage("Text", m) /\ text' = t
        /\ errRun' = 0
        /\ Fail("UnsupportedQuery", t)
    /\ UNCHANGED <<codecVars, appsVars, infoVars>>

----------------------------------------------------------------------------
\* The codec round trip: a command is framed, its frame written as hex text,
\* and the text handed to deser_apdu_command.

HeaderBytes == {0, 224, 255}
PayloadBytes == {0, 171, 255}
LongPayload == [k \in 1..U8Max |-> k]

CommandsIn ==
    [cla : HeaderBytes, ins : HeaderBytes, p1 : HeaderBytes, p2 : HeaderBytes,
     data : SeqsUpTo(PayloadBytes, MaxPayload) \cup {LongPayload}]

\* The frame of a command: [class, instruction, p1, p2, len(payload), payload...].
serialize(c) == <<c.cla, c.ins, c.p1, c.p2, Len(c.data)>> \o c.data

UpperOf(c) ==
    CASE c = "a" -> "A" [] c = "b" -> "B" [] c = "c" -> "C"
      [] c = "d" -> "D" [] c = "e" -> "E" [] c = "f" -> "F" [] OTHER -> c

\* The hex text of bytes in lower or in upper case.
HexText(bytes, upper) ==
    LET t == HexEncode(bytes)
    IN  IF upper THEN [k \in 1..Len(t) |-> UpperOf(t[k])] ELSE t

NoDecoded == [ok |-> FALSE, err |-> "", cmd |-> NoCommand]

CodecIdle ==
    /\ cpc = "idle"
    /\ cmdIn = NoCommand
    /\ hexText = <<>>
    /\ decoded = NoDecoded

CodecInit ==
    /\ cpc = "start"
    /\ cmdIn \in CommandsIn
    /\ hexText = <<>>
    /\ decoded = NoDecoded

Encode ==
    /\ cpc = "start"
    /\ Len(cmdIn.data) <= U8Max
    /\ \E upper \in BOOLEAN : hexText' = HexText(serialize(cmdIn), upper)
    /\ cpc' = "encoded"
    /\ UNCHANGED <<cmdIn, decoded>>
    /\ UNCHANGED <<relayVars, appsVars, infoVars>>

Decode ==
    /\ cpc = "encoded"
    /\ decoded' = deser_apdu_command(hexText)
    /\ cpc' = "decoded"
    /\ UNCHANGED <<cmdIn, hexText>>
    /\ UNCHANGED <<relayVars, appsVars, infoVars>>

----------------------------------------------------------------------------
\* The app-inventory decoder: list_installed_apps

RECURSIVE IsUtf8(_)
\* str::from_utf8 succeeds on bytes.
IsUtf8(b) ==
    LET n == Len(b)
        Cont(k) == k <= n /\ b[k] >= 128 /\ b[k] <= 191
    IN  IF n = 0 THEN TRUE
        ELSE IF b[1] < 128 THEN IsUtf8(Tail(b))
        ELSE IF b[1] >= 194 /\ b[1] <= 223
        THEN Cont(2) /\ IsUtf8(SubSeq(b, 3, n))
        ELSE IF b[1] >= 224 /\ b[1] <= 239
        THEN /\ Cont(2) /\ Cont(3)
             /\ (b[1] = 224 => b[2] >= 160)
             /\ (b[1] = 237 => b[2] <= 159)
             /\ IsUtf8(SubSeq(b, 4, n))
        ELSE IF b[1] >= 240 /\ b[1] <= 244
        THEN /\ Cont(2) /\ Cont(3) /\ Cont(4)
             /\ (b[1] = 240 => b[2] >= 144)
             /\ (b[1] = 244 => b[2] <= 143)
             /\ IsUtf8(SubSeq(b, 5, n))
        ELSE FALSE

\* u16::from_be_bytes
U16(hi, lo) == hi * 256 + lo

\* Inputs of the model: the bytes of one record as the device lays it out,
\* with declared total length L, declared name length N and the name bytes
\* actually present.
Hash(b) == [k \in 1..32 |-> b]
RecordBytes(L, N, name) ==
    <<L>> \o <<0, 3>> \o <<0, 1>> \o Hash(17) \o Hash(34) \o <<N>> \o name

NameBTC == <<66, 84, 67>>
NameAccent == <<195, 169>>          \* one two-byte character
NameInvalid == <<66, 255>>          \* no UTF8 text

GoodRecords == {RecordBytes(Len(n) + 70, Len(n), n) : n \in {<<>>, NameBTC, NameAccent}}
LastRecords ==
    GoodRecords \cup
    { RecordBytes(72, 3, NameBTC),                  \* L # N + 70, name present
      RecordBytes(74, 3, NameBTC),
      RecordBytes(70, 3, <<66>>),                   \* L # N + 70, name cut short
      RecordBytes(73, 3, <<66, 84>>),               \* L = N + 70, name cut short
      SubSeq(RecordBytes(73, 3, NameBTC), 1, 40),   \* header cut short
      RecordBytes(72, 2, NameInvalid) }             \* name is no UTF8 text

\* The payloads the device may return for `list apps' / `continue list apps'.
Pages ==
    {<<>>, <<1>>}
    \cup {<<1>> \o r : r \in LastRecords}
    \cup {<<1>> \o g \o r : g \in GoodRecords, r \in LastRecords}
    \cup {<<2>> \o r : r \in GoodRecords}           \* another format marker

AppsAnswers == {[ok |-> FALSE, payload |-> <<>>]} \cup {[ok |-> TRUE, payload |-> p] : p \in Pages}

\* The commands of the inventory.
LIST_APPS_COMMAND == [cla |-> 224, ins |-> 222, p1 |-> 0, p2 |-> 0, data |-> <<>>]
CONTINUE_LIST_APPS_COMMAND == [cla |-> 224, ins |-> 223, p1 |-> 0, p2 |-> 0, data |-> <<>>]

\* The device either answers any page (pages unused), or serves the pages of
\* a plan one per request and empty payloads once the plan is used up; the
\* transport may fail at any request.
FreeDevice == [scripted |-> FALSE, pages |-> <<>>]
PlannedDevice(pages) == [scripted |-> TRUE, pages |-> pages]
DeviceNow ==
    IF device.scripted
    THEN {[ok |-> FALSE, payload |-> <<>>],
          [ok |-> TRUE,
           payload |-> IF device.pages = <<>> THEN <<>> ELSE Head(device.pages)]}
    ELSE AppsAnswers

\* ledger_api.exchange(c) of list_installed_apps, answered with ans.
AppsExchange(c, ans) ==
    /\ reqs' = Append(reqs, c)
    /\ npages' = npages + 1
    /\ served' = IF ans.ok THEN Append(served, ans.payload) ELSE served
    /\ device' = IF device.scripted /\ ans.ok /\ device.pages # <<>>
                 THEN [device EXCEPT !.pages = Tail(@)]
                 ELSE device

Running == [tag |-> "Running", err |-> "", apps |-> <<>>]
Ok(apps) == [tag |-> "Ok", err |-> "", apps |-> apps]
Err(e) == [tag |-> "Err", err |-> e, apps |-> <<>>]
\* assert_eq! failed: the call unwinds and returns nothing.
Panicked == [tag |-> "Panic", err |-> "assert_eq", apps |-> <<>>]

AppsIdle ==
    /\ apc = "idle"
    /\ data = <<>>
    /\ cur = 0
    /\ installed_apps = <<>>
    /\ aresult = Running
    /\ npages = 0
    /\ reqs = <<>>
    /\ served = <<>>
    /\ device = FreeDevice

AppsInit ==
    /\ apc = "list"
    /\ data = <<>>
    /\ cur = 0
    /\ installed_apps = <<>>
    /\ aresult = Running
    /\ npages = 0
    /\ reqs = <<>>
    /\ served = <<>>
    /\ device = FreeDevice

AppsReturn(r) ==
    /\ apc' = "done"
    /\ aresult' = r

\* ledger_api.exchange(&LIST_APPS_COMMAND)?
ListApps ==
    /\ apc = "list"
    /\ \E ans \in DeviceNow :
        /\ AppsExchange(LIST_APPS_COMMAND, ans)
        /\ IF ~ans.ok
           THEN AppsReturn(Err("TransportError")) /\ UNCHANGED data
           ELSE data' = ans.payload /\ apc' = "page" /\ UNCHANGED aresult
    /\ UNCHANGED <<cur, installed_apps>>
    /\ UNCHANGED <<relayVars, codecVars, infoVars>>

\* The test of `while !data.is_empty()' and the marker assertion.
PageStart ==
    /\ apc = "page"
    /\ IF data = <<>>
       THEN AppsReturn(Ok(installed_apps)) /\ UNCHANGED cur
       ELSE IF data[1] # 1
       THEN AppsReturn(Panicked) /\ UNCHANGED cur
       ELSE cur' = 1 /\ apc' = "record" /\ UNCHANGED aresult
    /\ UNCHANGED <<data, installed_apps, npages, reqs, served, device>>
    /\ UNCHANGED <<relayVars, codecVars, infoVars>>

\* The record at 0-based offset k of d, read as the inner loop reads it.
RecordAt(d, k) ==
    [len |-> d[k + 1],
     blocks |-> U16(d[k + 2], d[k + 3]),
     flags |-> U16(d[k + 4], d[k + 5]),
     hash_code_data |-> SubSeq(d, k + 6, k + 37),
     hash |-> SubSeq(d, k + 38, k + 69),
     name_len |-> d[k + 70]]

\* RecordStep without the check of the declared length against the name length.
RecordStep_nolen ==
    /\ apc = "record"
    /\ cur < Len(data)
    /\ IF Len(data) < cur + 1 + 2 + 2 + 32 + 32 + 1
       THEN AppsReturn(Err("Not enough data")) /\ UNCHANGED <<cur, installed_apps>>
       ELSE LET r == RecordAt(data, cur)
                j == cur + 70
                name == SubSeq(data, j + 1, j + r.name_len)
            IN  IF Len(data) < j + r.name_len
                THEN AppsReturn(Err("Not enough data")) /\ UNCHANGED <<cur, installed_apps>>
                ELSE IF ~IsUtf8(name)
                THEN AppsReturn(Err("Utf8Error")) /\ UNCHANGED <<cur, installed_apps>>
                ELSE /\ cur' = j + r.name_len
                     /\ installed_apps' =
                            Append(installed_apps,
                                   [name |-> name, hash |-> r.hash,
                                    hash_code_data |-> r.hash_code_data,
                                    blocks |-> r.blocks, flags |-> r.flags])
                     /\ UNCHANGED <<apc, aresult>>
    /\ UNCHANGED <<data, npages, reqs, served, device>>
    /\ UNCHANGED <<relayVars, codecVars, infoVars>>

\* RecordStep with the cursor left where the record began.
RecordStep_stall ==
    /\ apc = "record"
    /\ cur < Len(data)
    /\ IF Len(data) < cur + 1 + 2 + 2 + 32 + 32 + 1
       THEN AppsReturn(Err("Not enough data")) /\ UNCHANGED <<cur, installed_apps>>
       ELSE LET r == RecordAt(data, cur)
                j == cur + 70
                name == SubSeq(data, j + 1, j + r.name_len)
            IN  IF Len(data) < j + r.name_len
                THEN AppsReturn(Err("Not enough data")) /\ UNCHANGED <<cur, installed_apps>>
                ELSE IF r.len # r.name_len + 70
                THEN /\ AppsReturn(Err("Invalid listApps length data."))
                     /\ UNCHANGED <<cur, installed_apps>>
                ELSE IF ~IsUtf8(name)
                THEN AppsReturn(Err("Utf8Error")) /\ UNCHANGED <<cur, installed_apps>>
                ELSE /\ cur' = cur
                     /\ installed_apps' =
                            Append(installed_apps,
                                   [name |-> name, hash |-> r.hash,
                                    hash_code_data |-> r.hash_code_data,
                                    blocks |-> r.blocks, flags |-> r.flags])
                     /\ UNCHANGED <<apc, aresult>>
    /\ UNCHANGED <<data, npages, reqs, served, device>>
    /\ UNCHANGED <<relayVars, codecVars, infoVars>>

\* One iteration of `while i < data.len()'.
RecordStep ==
    /\ apc = "record"
    /\ cur < Len(data)
    /\ IF Len(data) < cur + 1 + 2 + 2 + 32 + 32 + 1
       THEN AppsReturn(Err("Not enough data")) /\ UNCHANGED <<cur, installed_apps>>
       ELSE LET r == RecordAt(data, cur)
                j == cur + 70
                name == SubSeq(data, j + 1, j + r.name_len)
            IN  IF Len(data) < j + r.name_len
                THEN AppsReturn(Err("Not enough data")) /\ UNCHANGED <<cur, installed_apps>>
                ELSE IF r.len # r.name_len + 70
                THEN /\ AppsReturn(Err("Invalid listApps length data."))
                     /\ UNCHANGED <<cur, installed_apps>>
                ELSE IF ~IsUtf8(name)
                THEN AppsReturn(Err("Utf8Error")) /\ UNCHANGED <<cur, installed_apps>>
                ELSE /\ cur' = j + r.name_len
                     /\ installed_apps' =
                            Append(installed_apps,
                                   [name |-> name, hash |-> r.hash,
                                    hash_code_data |-> r.hash_code_data,
                                    blocks |-> r.blocks, flags |-> r.flags])
                     /\ UNCHANGED <<apc, aresult>>
    /\ UNCHANGED <<data, npages, reqs, served, device>>
    /\ UNCHANGED <<relayVars, codecVars, infoVars>>

\* ContinueListApps with the first command sent again for the next page.
ContinueListApps_relist ==
    /\ apc = "record"
    /\ cur >= Len(data)
    /\ npages < MaxPages
    /\ \E ans \in DeviceNow :
        /\ AppsExchange(LIST_APPS_COMMAND, ans)
        /\ IF ~ans.ok
           THEN AppsReturn(Err("TransportError")) /\ UNCHANGED data
           ELSE data' = ans.payload /\ apc' = "page" /\ UNCHANGED aresult
    /\ UNCHANGED <<cur, installed_apps>>
    /\ UNCHANGED <<relayVars, codecVars, infoVars>>

\* ContinueListApps with the list started afresh for each page.
ContinueListApps_reset ==
    /\ apc = "record"
    /\ cur >= Len(data)
    /\ npages < MaxPages
    /\ \E ans \in DeviceNow :
        /\ AppsExchange(CONTINUE_LIST_APPS_COMMAND, ans)
        /\ IF ~ans.ok
           THEN AppsReturn(Err("TransportError")) /\ UNCHANGED data
           ELSE data' = ans.payload /\ apc' = "page" /\ UNCHANGED aresult
    /\ installed_apps' = <<>> /\ UNCHANGED cur
    /\ UNCHANGED <<relayVars, codecVars, infoVars>>

\* ledger_api.exchange(&CONTINUE_LIST_APPS_COMMAND)? once the cursor is exhausted.
ContinueListApps ==
    /\ apc = "record"
    /\ cur >= Len(data)
    /\ npages < MaxPages
    /\ \E ans \in DeviceNow :
        /\ AppsExchange(CONTINUE_LIST_APPS_COMMAND, ans)
        /\ IF ~ans.ok
           THEN AppsReturn(Err("TransportError")) /\ UNCHANGED data
           ELSE data' = ans.payload /\ apc' = "page" /\ UNCHANGED aresult
    /\ UNCHANGED <<cur, installed_apps>>
    /\ UNCHANGED <<relayVars, codecVars, infoVars>>

\* An inventory of well-formed records served over several pages: the record
\* bytes in one run, the offsets at which a record starts or ends, and the
\* places the run may be cut at (a record boundary, or 1, 40 or 70 bytes into
\* a record).
RECURSIVE Flatten(_)
Flatten(ss) == IF ss = <<>> THEN <<>> ELSE Head(ss) \o Flatten(Tail(ss))

Boundaries(rs) == {Len(Flatten(SubSeq(rs, 1, k))) : k \in 0..Len(rs)}
CutPoints(rs) ==
    {c \in 0..Len(Flatten(rs)) : \E b \in Boundaries(rs), d \in {0, 1, 40, 70} : c = b + d}

\* The pages of the run b cut at the non-decreasing offsets c: each page is
\* the 0x01 marker followed by its chunk.
PagesOf(b, c) ==
    LET n == Len(c) + 1
        from(k) == IF k = 1 THEN 0 ELSE c[k - 1]
        to(k) == IF k = n THEN Len(b) ELSE c[k]
    IN  [k \in 1..n |-> <<1>> \o SubSeq(b, from(k) + 1, to(k))]

\* Every way of serving up to MaxRecords good records in MaxPages - 1 pages,
\* which leaves one request for the empty payload that ends the inventory.
Plans ==
    UNION {{PagesOf(Flatten(rs), c) :
                c \in {f \in [1..(MaxPages - 2) -> CutPoints(rs)] :
                            \A k \in 1..(MaxPages - 3) : f[k] <= f[k + 1]}} :
           rs \in SeqsUpTo(GoodRecords, MaxRecords)}

SplitInit ==
    /\ apc = "list"
    /\ data = <<>>
    /\ cur = 0
    /\ installed_apps = <<>>
    /\ aresult = Running
    /\ npages = 0
    /\ reqs = <<>>
    /\ served = <<>>
    /\ device \in {PlannedDevice(p) : p \in Plans}

----------------------------------------------------------------------------
\* DeviceInfo::new

\* u32::from_be_bytes of four bytes. A u32 is kept as its two 16-bit halves,
\* high and low (TLC's integers are 32 bits wide, sign included).
U32(b) == [high |-> b[1] * 256 + b[2], low |-> b[3] * 256 + b[4]]
ZeroU32 == [high |-> 0, low |-> 0]

\* Option<String>
None == [some |-> FALSE, v |-> <<>>]
Some(v) == [some |-> TRUE, v |-> v]

\* Inputs of the model: the fields a device answers GET_VERSION with. `rest'
\* holds the length-prefixed fields after the flags: the MCU string in
\* application mode, part1 and possibly a second field in bootloader mode.
LP(x) == <<Len(x)>> \o x
AppTargetIds == {<<49, 0, 0, 0>>, <<51, 0, 0, 4>>}          \* 0x31000000, 0x33000004
BootTargetIds == {<<1, 0, 0, 1>>, <<177, 0, 0, 48>>}        \* 0x01000001, 0xB1000030
Version210 == <<50, 46, 49, 46, 48>>                        \* "2.1.0"
Versions == {Version210, <<>>, <<50, 255>>}                 \* the last is no UTF8 text
FlagSets == {<<>>, <<0>>}
Mcu116 == <<49, 46, 49, 54>>                                \* "1.16"
Mcus == {Mcu116, Mcu116 \o <<0>>, Mcu116 \o <<0, 0>>, <<0>>, <<>>, <<255>>}
Part1s ==
    {<<>>, <<7>>, <<1, 2, 3>>, <<51, 0, 0, 4>>,
     <<49, 46, 48, 46, 48>>, <<49, 46, 48, 46, 49, 48>>,    \* "1.0.0", "1.0.10"
     <<255, 46, 48, 46, 48>>}                               \* five bytes, no UTF8 text
Part2s == {<<>>, <<1, 2, 3>>, <<51, 0, 0, 4>>, <<1, 2, 3, 4, 5>>}

Identities ==
    [tid : AppTargetIds, version : Versions, flags : FlagSets,
     rest : {<<m>> : m \in Mcus}]
    \cup [tid : BootTargetIds, version : Versions, flags : FlagSets,
          rest : {<<p>> : p \in Part1s} \cup {<<p, q>> : p \in Part1s, q \in Part2s}]

\* The payload that carries the fields s.
IdentityBytes(s) ==
    s.tid \o LP(s.version) \o LP(s.flags)
          \o Flatten([k \in 1..Len(s.rest) |-> LP(s.rest[k])])

NoSent == [tid |-> <<>>, version |-> <<>>, flags |-> <<>>, rest |-> <<>>]
NoLoc ==
    [target_id |-> ZeroU32, raw_ver_len |-> 0, version |-> <<>>, flags_len |-> 0,
     flags |-> <<>>, is_bootloader |-> FALSE, part1 |-> <<>>]
NoInfo ==
    [target_id |-> ZeroU32, version |-> <<>>, flags |-> <<>>, is_bootloader |-> FALSE,
     se_version |-> None, se_target_id |-> ZeroU32, mcu_version |-> None]

InfoRunning == [tag |-> "Running", err |-> "", info |-> NoInfo]
InfoOk(info) == [tag |-> "Ok", err |-> "", info |-> info]
InfoErr(e) == [tag |-> "Err", err |-> e, info |-> NoInfo]
\* A panic: the call unwinds and returns nothing.
InfoPanic(e) == [tag |-> "Panic", err |-> e, info |-> NoInfo]

InfoIdle ==
    /\ ipc = "idle"
    /\ sent = NoSent
    /\ ver_answer = <<>>
    /\ vi = 0
    /\ loc = NoLoc
    /\ dresult = InfoRunning
    /\ reach = 0

InfoInit ==
    /\ ipc = "get"
    /\ sent = NoSent
    /\ ver_answer = <<>>
    /\ vi = 0
    /\ loc = NoLoc
    /\ dresult = InfoRunning
    /\ reach = 0

InfoReturn(r) ==
    /\ ipc' = "done"
    /\ dresult' = r

\* let ver_answer = ledger_api.exchange(&GET_VERSION_COMMAND)?; the payload
\* may stop at any position.
GetVersion ==
    /\ ipc = "get"
    /\ \/ /\ InfoReturn(InfoErr("TransportError"))
          /\ UNCHANGED <<sent, ver_answer>>
       \/ \E s \in Identities : \E n \in 0..Len(IdentityBytes(s)) :
            /\ sent' = s
            /\ ver_answer' = SubSeq(IdentityBytes(s), 1, n)
            /\ ipc' = "header"
            /\ UNCHANGED dresult
    /\ UNCHANGED <<vi, loc, reach>>
    /\ UNCHANGED <<relayVars, codecVars, appsVars>>

\* target_id and the length of the version string.
ReadHeader ==
    /\ ipc = "header"
    /\ IF Len(ver_answer) < 5
       THEN InfoReturn(InfoErr("Not enough data")) /\ UNCHANGED <<vi, loc, reach>>
       ELSE /\ loc' = [loc EXCEPT !.target_id = U32(SubSeq(ver_answer, vi + 1, vi + 4)),
                                  !.raw_ver_len = ver_answer[vi + 5]]
            /\ vi' = vi + 5
            /\ reach' = vi + 5
            /\ ipc' = "version"
            /\ UNCHANGED dresult
    /\ UNCHANGED <<sent, ver_answer>>
    /\ UNCHANGED <<relayVars, codecVars, appsVars>>

\* ReadVersion with the bounds check not counting the byte of the flags length.
ReadVersion_short ==
    /\ ipc = "version"
    /\ IF Len(ver_answer) < vi + loc.raw_ver_len
       THEN InfoReturn(InfoErr("Not enough data")) /\ UNCHANGED <<vi, loc, reach>>
       ELSE LET j == vi + loc.raw_ver_len
                raw_ver == SubSeq(ver_answer, vi + 1, j)
            IN  IF ~IsUtf8(raw_ver)
                THEN /\ InfoReturn(InfoErr("Utf8Error"))
                     /\ reach' = j
                     /\ UNCHANGED <<vi, loc>>
                ELSE IF j + 1 > Len(ver_answer)
                THEN /\ InfoReturn(InfoPanic("index out of bounds"))
                     /\ reach' = j + 1
                     /\ UNCHANGED <<vi, loc>>
                ELSE /\ loc' = [loc EXCEPT !.version = raw_ver,
                                           !.flags_len = ver_answer[j + 1]]
                     /\ vi' = j + 1
                     /\ reach' = j + 1
                     /\ ipc' = "flags"
                     /\ UNCHANGED dresult
    /\ UNCHANGED <<sent, ver_answer>>
    /\ UNCHANGED <<relayVars, codecVars, appsVars>>

\* The version string and the length of the flags.
ReadVersion ==
    /\ ipc = "version"
    /\ IF Len(ver_answer) < vi + loc.raw_ver_len + 1
       THEN InfoReturn(InfoErr("Not enough data")) /\ UNCHANGED <<vi, loc, reach>>
       ELSE LET j == vi + loc.raw_ver_len
                raw_ver == SubSeq(ver_answer, vi + 1, j)
            IN  IF ~IsUtf8(raw_ver)
                THEN /\ InfoReturn(InfoErr("Utf8Error"))
                     /\ reach' = j
                     /\ UNCHANGED <<vi, loc>>
                ELSE /\ loc' = [loc EXCEPT !.version = raw_ver,
                                           !.flags_len = ver_answer[j + 1]]
                     /\ vi' = j + 1
                     /\ reach' = j + 1
                     /\ ipc' = "flags"
                     /\ UNCHANGED dresult
    /\ UNCHANGED <<sent, ver_answer>>
    /\ UNCHANGED <<relayVars, codecVars, appsVars>>

\* The flags, and the mode: (target_id & 0xF0000000) != 0x30000000, which on
\* the high half reads (high & 0xF000) != 0x3000.
ReadFlags ==
    /\ ipc = "flags"
    /\ IF Len(ver_answer) < vi + loc.flags_len
       THEN InfoReturn(InfoErr("Not enough data")) /\ UNCHANGED <<vi, loc, reach>>
       ELSE LET is_bootloader ==
                    loc.target_id.high - (loc.target_id.high % 4096) # 12288
            IN  /\ loc' = [loc EXCEPT
                            !.flags = SubSeq(ver_answer, vi + 1, vi + loc.flags_len),
                            !.is_bootloader = is_bootloader]
                /\ vi' = vi + loc.flags_len
                /\ reach' = vi + loc.flags_len
                /\ ipc' = IF is_bootloader THEN "part1" ELSE "mcu"
                /\ UNCHANGED dresult
    /\ UNCHANGED <<sent, ver_answer>>
    /\ UNCHANGED <<relayVars, codecVars, appsVars>>

\* Bootloader mode: part1.
ReadPart1 ==
    /\ ipc = "part1"
    /\ IF Len(ver_answer) < vi + 1
       THEN InfoReturn(InfoErr("Not enough data")) /\ UNCHANGED <<vi, loc, reach>>
       ELSE LET part1_len == ver_answer[vi + 1]
                j == vi + 1
            IN  IF Len(ver_answer) < j + part1_len
                THEN /\ InfoReturn(InfoErr("Not enough data"))
                     /\ reach' = j
                     /\ UNCHANGED <<vi, loc>>
                ELSE /\ loc' = [loc EXCEPT !.part1 = SubSeq(ver_answer, j + 1, j + part1_len)]
                     /\ vi' = j + part1_len
                     /\ reach' = j + part1_len
                     /\ ipc' = IF part1_len >= 5 THEN "part2" ELSE "short"
                     /\ UNCHANGED dresult
    /\ UNCHANGED <<sent, ver_answer>>
    /\ UNCHANGED <<relayVars, codecVars, appsVars>>

\* The DeviceInfo built from the locals and the fields of the branch taken.
Info(se_version, se_target_id, mcu_version) ==
    [target_id |-> loc.target_id, version |-> loc.version, flags |-> loc.flags,
     is_bootloader |-> loc.is_bootloader, se_version |-> se_version,
     se_target_id |-> se_target_id, mcu_version |-> mcu_version]

\* Bootloader mode, part1 of five bytes or more: part1 is the secure-element
\* version and a second field holds the secure-element target id. The two
\* unwrap() calls panic.
ReadPart2 ==
    /\ ipc = "part2"
    /\ IF ~IsUtf8(loc.part1)
       THEN InfoReturn(InfoPanic("Utf8Error")) /\ UNCHANGED reach
       ELSE IF Len(ver_answer) < vi + 1
       THEN InfoReturn(InfoErr("Not enough data")) /\ UNCHANGED reach
       ELSE LET part2_len == ver_answer[vi + 1]
                j == vi + 1
                part2 == SubSeq(ver_answer, j + 1, j + part2_len)
            IN  IF Len(ver_answer) < j + part2_len
                THEN InfoReturn(InfoErr("Not enough data")) /\ reach' = j
                ELSE /\ reach' = j + part2_len
                     /\ IF Len(part2) # 4
                        THEN InfoReturn(InfoPanic("TryFromSliceError"))
                        ELSE InfoReturn(InfoOk(Info(Some(loc.part1), U32(part2), None)))
    /\ UNCHANGED <<sent, ver_answer, vi, loc>>
    /\ UNCHANGED <<relayVars, codecVars, appsVars>>

\* A part1 of fewer than four bytes filled up with leading zero bytes.
PadTo4(p) == [k \in 1..(4 - Len(p)) |-> 0] \o p

\* ReadShort with a part1 of fewer than four bytes accepted.
ReadShort_pad ==
    /\ ipc = "short"
    /\ IF Len(loc.part1) > 4
       THEN InfoReturn(InfoPanic("TryFromSliceError"))
       ELSE InfoReturn(InfoOk(Info(None, U32(PadTo4(loc.part1)), None)))
    /\ UNCHANGED <<sent, ver_answer, vi, loc, reach>>
    /\ UNCHANGED <<relayVars, codecVars, appsVars>>

\* Bootloader mode, part1 of fewer than five bytes: part1 is the
\* secure-element target id; try_into().unwrap() panics unless it has four bytes.
ReadShort ==
    /\ ipc = "short"
    /\ IF Len(loc.part1) # 4
       THEN InfoReturn(InfoPanic("TryFromSliceError"))
       ELSE InfoReturn(InfoOk(Info(None, U32(loc.part1), None)))
    /\ UNCHANGED <<sent, ver_answer, vi, loc, reach>>
    /\ UNCHANGED <<relayVars, codecVars, appsVars>>

\* ReadMcu with the trailing NUL kept.
ReadMcu_keepnul ==
    /\ ipc = "mcu"
    /\ IF Len(ver_answer) < vi + 1
       THEN InfoReturn(InfoErr("Not enough data")) /\ UNCHANGED reach
       ELSE LET mcu_len == ver_answer[vi + 1]
                j == vi + 1
                mcu == SubSeq(ver_answer, j + 1, j + mcu_len)
            IN  IF Len(ver_answer) < j + mcu_len
                THEN InfoReturn(InfoErr("Not enough data")) /\ reach' = j
                ELSE IF mcu_len = 0
                THEN /\ \E e \in {"attempt to subtract with overflow",
                                  "index out of bounds"} :
                            InfoReturn(InfoPanic(e))
                     /\ reach' = j
                ELSE LET stripped == mcu
                     IN  /\ reach' = j + mcu_len
                         /\ IF ~IsUtf8(stripped)
                            THEN InfoReturn(InfoPanic("Utf8Error"))
                            ELSE InfoReturn(InfoOk(Info(Some(loc.version),
                                                        loc.target_id,
                                                        Some(stripped))))
    /\ UNCHANGED <<sent, ver_answer, vi, loc>>
    /\ UNCHANGED <<relayVars, codecVars, appsVars>>

\* Application mode: the MCU string, one trailing NUL dropped. The index
\* mcu[mcu.len() - 1] of an empty string panics (on the subtraction in a build
\* with overflow checks, on the index otherwise), and so does unwrap().
ReadMcu ==
    /\ ipc = "mcu"
    /\ IF Len(ver_answer) < vi + 1
       THEN InfoReturn(InfoErr("Not enough data")) /\ UNCHANGED reach
       ELSE LET mcu_len == ver_answer[vi + 1]
                j == vi + 1
                mcu == SubSeq(ver_answer, j + 1, j + mcu_len)
            IN  IF Len(ver_answer) < j + mcu_len
                THEN InfoReturn(InfoErr("Not enough data")) /\ reach' = j
                ELSE IF mcu_len = 0
                THEN /\ \E e \in {"attempt to subtract with overflow",
                                  "index out of bounds"} :
                            InfoReturn(InfoPanic(e))
                     /\ reach' = j
                ELSE LET stripped == IF mcu[Len(mcu)] = 0
                                 THEN SubSeq(mcu, 1, Len(mcu) - 1)
                                 ELSE mcu
                     IN  /\ reach' = j + mcu_len
                         /\ IF ~IsUtf8(stripped)
                            THEN InfoReturn(InfoPanic("Utf8Error"))
                            ELSE InfoReturn(InfoOk(Info(Some(loc.version),
                                                        loc.target_id,
                                                        Some(stripped))))
    /\ UNCHANGED <<sent, ver_answer, vi, loc>>
    /\ UNCHANGED <<relayVars, codecVars, appsVars>>

----------------------------------------------------------------------------
\* Specifications

RelayIdle ==
    /\ rpc = "idle" /\ msg = NoMsg /\ command = NoCommand /\ bulkIdx = 0
    /\ out = <<>> /\ xlog = <<>> /\ resp = <<>> /\ result = "Running" /\ nreads = 0
    /\ errRun = 0 /\ frame = "None" /\ text = NoText /\ errText = NoText

\* A relay session.
Init == RelayInit /\ CodecIdle /\ AppsIdle /\ InfoIdle
Next ==
    \/ ReadFail \/ RecvNonText \/ RecvBadJson
    \/ RecvExchange \/ ExchangeDone
    \/ RecvBulk \/ BulkStep \/ BulkDone
    \/ RecvSuccess \/ RecvError \/ RecvWarning \/ RecvOther
Spec == Init /\ [][Next]_vars

\* A command round trip through the codec.
CodecSpecInit == RelayIdle /\ CodecInit /\ AppsIdle /\ InfoIdle
CodecNext == Encode \/ Decode
CodecSpec == CodecSpecInit /\ [][CodecNext]_vars

\* One call of list_installed_apps.
AppsSpecInit == RelayIdle /\ CodecIdle /\ AppsInit /\ InfoIdle
AppsNext == ListApps \/ PageStart \/ RecordStep \/ ContinueListApps
AppsSpec == AppsSpecInit /\ [][AppsNext]_vars

\* A device identity query.
InfoSpecInit == RelayIdle /\ CodecIdle /\ AppsIdle /\ InfoInit
InfoNext ==
    \/ GetVersion \/ ReadHeader \/ ReadVersion \/ ReadFlags
    \/ ReadPart1 \/ ReadPart2 \/ ReadShort \/ ReadMcu
InfoSpec == InfoSpecInit /\ [][InfoNext]_vars

\* An inventory whose pages were fixed beforehand.
SplitSpecInit == RelayIdle /\ CodecIdle /\ SplitInit /\ InfoIdle
SplitSpec == SplitSpecInit /\ [][AppsNext]_vars

\* list_installed_apps run to its end against a device that serves its pages
\* and then the empty payload: the function is sequential code on one thread,
\* so a step that can be taken is taken.
SplitFairSpec == SplitSpec /\ WF_vars(AppsNext)

----------------------------------------------------------------------------
\* Properties of the relay engine (checked under Spec)

KnownQueries == {"exchange", "bulk", "success", "error", "warning"}

\* The hex text expected for each payload the device returns in the model.
ExpectedHex(p) ==
    CASE p = <<>> -> <<>>
      [] p = <<171>> -> <<"a", "b">>
      [] p = <<1, 255>> -> <<"0", "1", "f", "f">>

\* The device answered the 'exchange' command of the current envelope.
ExchangeAnswered ==
    msg.query = "exchange" /\ xlog # <<>> /\ xlog[1].ok

\* A sub-command of the current 'bulk' envelope failed at the transport level.
BulkTransportFailed ==
    msg.query = "bulk" /\ \E k \in 1..Len(xlog) : ~xlog[k].ok

\* A sub-command of the current 'bulk' envelope was answered with a status
\* other than 0x9000.
BulkStatusFailed ==
    msg.query = "bulk"
    /\ \E k \in 1..Len(xlog) : xlog[k].ok /\ xlog[k].status # StatusCode_OK

\* The commands handed to the device for the current envelope, in order.
XCmds == [k \in 1..Len(xlog) |-> xlog[k].cmd]

NonEmptyText(t) == t # <<>>
\* The commands of the non-empty entries among the first n of list l.
CmdsOfFirst(l, n) ==
    LET t == SelectSeq(SubSeq(l, 1, n), NonEmptyText)
    IN  [k \in 1..Len(t) |-> deser_apdu_command(t[k]).cmd]

\* C1: once the device has answered the command of an 'exchange' envelope
\* with status s and payload p, exactly one message has been handed to the
\* channel for it: {nonce of the envelope, "success" if s = 0x9000 else
\* "error", hex(p)}, the hex text covering the payload without the status.
C1_ExchangeReply ==
    ExchangeAnswered =>
        /\ msg.data.kind = "Command"
        /\ Len(xlog) = 1
        /\ \E p \in Payloads, s \in Statuses :
            /\ resp = p \o StatusBytes(s)
            /\ out = <<[nonce |-> msg.nonce,
                        response |-> IF s = 36864 THEN "success" ELSE "error",
                        data |-> ExpectedHex(p)]>>

\* The example of the specification: nonce 7, status 0x9000, payload 0xAB.
C1_Witness ==
    /\ msg.query = "exchange" /\ msg.nonce = 7
    /\ resp = <<171, 144, 0>>
    /\ out = <<[nonce |-> 7, response |-> "success", data |-> <<"a", "b">>]>>
    /\ rpc = "read"

\* C2: an 'exchange' whose device answer has a status other than 0x9000 gets
\* the "error" reply and the engine is back at socket.read with the session
\* running; the session ends there only when socket.send itself fails.
C2_DeviceFailureNotFatal ==
    (ExchangeAnswered /\ xlog[1].status # StatusCode_OK) =>
        /\ Len(out) = 1 /\ out[1].response = "error"
        /\ \/ rpc = "read" /\ result = "Running"
           \/ rpc = "done" /\ result = "ChannelError"

\* Every read of the session was an 'exchange' answered with "error", and the
\* engine is waiting again.
C2_Witness ==
    /\ errRun = MaxReads
    /\ ExchangeAnswered /\ xlog[1].status # StatusCode_OK
    /\ rpc = "read" /\ result = "Running"

\* C3: when the exchange of a bulk sub-command fails at the transport level,
\* the session has ended with the transport error, the failed exchange is the
\* last one made, and no message was handed to the channel for the envelope.
C3_BulkTransportFailure ==
    BulkTransportFailed =>
        /\ rpc = "done" /\ result = "TransportError"
        /\ out = <<>>
        /\ \A k \in 1..Len(xlog) : ~xlog[k].ok <=> k = Len(xlog)

C3_Witness ==
    /\ BulkTransportFailed
    /\ Len(xlog) = 2 /\ xlog[1].ok /\ ~xlog[2].ok
    /\ result = "TransportError"

\* C4: while and after a 'bulk' envelope with command list c is handled, the
\* commands exchanged with the device are those of the non-empty entries of c
\* passed so far, in list order; an entry that does not decode or whose
\* exchange fails ends the session at that entry, with nothing after it
\* executed; the one reply {nonce, "success", ""} is sent only once every
\* entry has been passed.
C4_BulkOrder ==
    (msg.query = "bulk" /\ msg.data.kind = "CommandList") =>
        LET c == msg.data.l
        IN  /\ bulkIdx <= Len(c)
            /\ IF result = "TransportError"
               THEN /\ bulkIdx < Len(c)
                    /\ XCmds = CmdsOfFirst(c, bulkIdx + 1)
                    /\ c[bulkIdx + 1] # <<>>
               ELSE XCmds = CmdsOfFirst(c, bulkIdx)
            /\ result = "MalformedCommand" =>
                    /\ bulkIdx < Len(c)
                    /\ c[bulkIdx + 1] # <<>>
                    /\ ~deser_apdu_command(c[bulkIdx + 1]).ok
            /\ out # <<>> =>
                    /\ out = <<[nonce |-> msg.nonce, response |-> "success",
                                data |-> <<>>]>>
                    /\ bulkIdx = Len(c)
                    /\ \A k \in 1..Len(xlog) : xlog[k].ok
            /\ (rpc = "read" \/ result = "ChannelError") => Len(out) = 1

\* A list with an empty entry between two commands, completed.
C4_Witness ==
    /\ msg.query = "bulk"
    /\ msg.data.l = <<HexGetVersion, HexEmpty, HexOpenApp>>
    /\ XCmds = <<[cla |-> 224, ins |-> 1, p1 |-> 0, p2 |-> 0, data |-> <<>>],
                 [cla |-> 224, ins |-> 216, p1 |-> 0, p2 |-> 0, data |-> <<171>>]>>
    /\ out = <<[nonce |-> msg.nonce, response |-> "success", data |-> <<>>]>>
    /\ rpc = "read"

\* C5: a 'success' envelope ends the session with Ok, with no reply and no
\* device exchange for it, and once the session has ended with Ok no further
\* read, send or device exchange happens.
C5_SuccessEnds ==
    /\ []((frame = "Text" /\ msg.query = "success") =>
            (rpc = "done" /\ result = "Ok" /\ out = <<>> /\ xlog = <<>>))
    /\ [][result = "Ok" => UNCHANGED <<nreads, out, xlog, rpc, result>>]_vars

C5_Witness ==
    /\ msg.query = "success" /\ result = "Ok" /\ nreads > 1

\* C6: an envelope whose query is none of exchange, bulk, success, error,
\* warning ends the session with UnsupportedQuery, with no reply sent and no
\* device exchange made.
C6_UnsupportedQuery ==
    (frame = "Text" /\ msg # NoMsg /\ msg.query \notin KnownQueries) =>
        /\ rpc = "done" /\ result = "UnsupportedQuery"
        /\ out = <<>> /\ xlog = <<>>

C6_Witness ==
    /\ msg.query = "other" /\ result = "UnsupportedQuery" /\ nreads > 1

\* What each way of ending the session goes back to.
EndCause ==
    \/ result = "Ok" /\ msg.query = "success"
    \/ result = "ErrorQuery" /\ msg.query = "error"
    \/ result = "UnsupportedQuery" /\ msg # NoMsg /\ msg.query \notin KnownQueries
    \/ result = "UnsupportedFrame" /\ frame \in NonTextKinds
    \/ result = "JsonError" /\ frame = "Text" /\ msg = NoMsg
    \/ result = "ProtocolViolation"
        /\ \/ msg.query = "exchange" /\ msg.data.kind # "Command"
           \/ msg.query = "bulk" /\ msg.data.kind # "CommandList"
    \/ result = "MalformedCommand"
        /\ \/ msg.query = "exchange" /\ ~deser_apdu_command(msg.data.h).ok
           \/ msg.query = "bulk" /\ ~deser_apdu_command(msg.data.l[bulkIdx + 1]).ok
    \/ result = "ChannelError" /\ (frame = "ReadError" \/ out # <<>>)
    \/ result = "TransportError" /\ xlog # <<>> /\ ~xlog[Len(xlog)].ok

\* C7 as stated: the loop ends only via a 'success' query, an 'error' query,
\* unsupported input (read widely: a frame, text, query, data shape or command
\* the engine rejects) or a channel failure.
C7_Original ==
    result # "Running" =>
        result \in {"Ok", "ErrorQuery", "UnsupportedQuery", "UnsupportedFrame",
                    "JsonError", "ProtocolViolation", "MalformedCommand",
                    "ChannelError"}

\* C7, amended: the loop ends only via a 'success' query, an 'error' query,
\* unsupported input, a channel failure (of socket.read or socket.send) or a
\* transport-level failure of a device exchange; in every other situation
\* (a warning, an 'exchange' or a 'bulk' whose reply was sent) the engine is
\* back at socket.read with the session running.
C7_LoopEnds ==
    /\ (rpc = "done") <=> (result # "Running")
    /\ result # "Running" => EndCause
    /\ (frame = "Text" /\ msg.query = "warning") => rpc = "read"
    /\ (msg.query \in {"exchange", "bulk"} /\ out # <<>> /\ result # "ChannelError")
            => rpc = "read"

\* A device transport failure ended the session after an earlier message was
\* handled and the engine had gone back to waiting.
C7_Witness ==
    /\ result = "TransportError" /\ msg.query = "exchange" /\ nreads = MaxReads

\* C8 as stated: in bulk handling a device failure of the kind 'exchange'
\* handling reports softly (an answer whose status is not 0x9000) aborts the
\* session: once the bulk handling is over the session has ended.
C8_Original ==
    (BulkStatusFailed /\ rpc # "bulk") => result # "Running"

\* C8, amended: in 'bulk' handling a transport-level failure of a sub-command
\* aborts the session with no reply, while an answer whose status is not
\* 0x9000 is ignored (it ends nothing, and the bulk completes with the
\* "success" reply); in 'exchange' handling an answer whose status is not
\* 0x9000 is reported with an "error" reply and the session goes on, and a
\* transport-level failure aborts the session there too.
C8_Asymmetry ==
    /\ BulkTransportFailed => (result = "TransportError" /\ out = <<>>)
    /\ BulkStatusFailed =>
        /\ result \in {"Running", "MalformedCommand", "TransportError", "ChannelError"}
        /\ result = "TransportError" => ~xlog[Len(xlog)].ok
        /\ result = "MalformedCommand" => ~deser_apdu_command(msg.data.l[bulkIdx + 1]).ok
        /\ result = "ChannelError" => out = <<ws_resp_bulk(msg.nonce)>>
        /\ rpc = "read" => out = <<ws_resp_bulk(msg.nonce)>>
    /\ (ExchangeAnswered /\ xlog[1].status # StatusCode_OK) =>
        /\ out # <<>> /\ out[1].response = "error"
        /\ result \in {"Running", "ChannelError"}
    /\ (msg.query = "exchange" /\ xlog # <<>> /\ ~xlog[1].ok) =>
        (result = "TransportError" /\ out = <<>>)

\* A bulk whose first sub-command was answered with a status other than
\* 0x9000 ran to its end and was answered with "success".
C8_Witness ==
    /\ BulkStatusFailed
    /\ Len(xlog) = 2 /\ xlog[1].status # StatusCode_OK
    /\ rpc = "read" /\ result = "Running"
    /\ out = <<[nonce |-> msg.nonce, response |-> "success", data |-> <<>>]>>

----------------------------------------------------------------------------
\* Properties of the codec (checked under CodecSpec)

\* C9: for every command with a payload of at most 255 bytes, decoding the hex
\* text (in either case) of its frame [class, instruction, p1, p2,
\* len(payload), payload...] succeeds and gives back the same class,
\* instruction, p1, p2 and payload.
C9_RoundTrip ==
    cpc = "decoded" =>
        /\ decoded.ok
        /\ decoded.cmd.cla = cmdIn.cla /\ decoded.cmd.ins = cmdIn.ins
        /\ decoded.cmd.p1 = cmdIn.p1 /\ decoded.cmd.p2 = cmdIn.p2
        /\ decoded.cmd.data = cmdIn.data

\* A command with a payload of 255 bytes went through.
C9_Witness ==
    /\ cpc = "decoded" /\ decoded.ok
    /\ Len(cmdIn.data) = 255 /\ cmdIn.cla = 224
    /\ Len(hexText) = 520 /\ hexText[1] = "E"

----------------------------------------------------------------------------
\* Properties of the app-inventory decoder (checked under AppsSpec)

\* The inner loop is at a record whose 70-byte header is in the page and whose
\* declared total length differs from its declared name length + 70.
AtBadLengthRecord ==
    /\ apc = "record" /\ cur < Len(data)
    /\ Len(data) >= cur + 70
    /\ data[cur + 1] # data[cur + 70] + 70

\* C10 as stated: every record whose declared total length L differs from
\* N + 70 makes the listing fail with InvalidRecord.
C10_Original ==
    [][AtBadLengthRecord => aresult' = Err("Invalid listApps length data.")]_vars

\* C10, amended: a record whose declared total length L differs from N + 70
\* makes the whole listing fail and no app list is returned; the failure is
\* InvalidRecord when the N name bytes are all in the page, and TruncatedData
\* ("Not enough data") when the page ends before them, as the name bound is
\* checked first.
C10_InvalidRecord ==
    [][AtBadLengthRecord =>
        /\ apc' = "done"
        /\ aresult'.tag = "Err" /\ aresult'.apps = <<>>
        /\ aresult'.err = IF Len(data) >= cur + 70 + data[cur + 70]
                          THEN "Invalid listApps length data."
                          ELSE "Not enough data"]_vars

\* The listing failed on a record of a wrong length after earlier records had
\* been decoded, on a page that is not the first.
C10_Witness ==
    /\ aresult = Err("Invalid listApps length data.")
    /\ Len(installed_apps) >= 2 /\ npages >= 2

----------------------------------------------------------------------------
\* Hex texts read without hex::decode: the characters that are digits and the
\* value of each.
HexChars == {HexDigits[k] : k \in 1..16} \cup {UpperOf(HexDigits[k]) : k \in 1..16}
DigitValue(c) == CHOOSE v \in 0..15 : c \in {HexDigits[v + 1], UpperOf(HexDigits[v + 1])}
ByteAt(h, k) == 16 * DigitValue(h[2 * k - 1]) + DigitValue(h[2 * k])

\* h is the text of a command: an even number of hex digits, at least five
\* bytes, and exactly 5 + (fifth byte) bytes.
WellFormedCommandText(h) ==
    /\ Len(h) % 2 = 0
    /\ \A k \in 1..Len(h) : h[k] \in HexChars
    /\ Len(h) >= 10
    /\ Len(h) \div 2 = 5 + ByteAt(h, 5)

\* The command a well-formed text stands for.
CommandOfText(h) ==
    [cla |-> ByteAt(h, 1), ins |-> ByteAt(h, 2), p1 |-> ByteAt(h, 3),
     p2 |-> ByteAt(h, 4),
     data |-> [j \in 1..(Len(h) \div 2 - 5) |-> ByteAt(h, 5 + j)]]

\* C17: the command text of an 'exchange' envelope, and the bulk entry the
\* loop stopped at, failed to decode (MalformedCommand) exactly when the text
\* is not even-length hex of exactly 5 + declared-length bytes (texts shorter
\* than five bytes included); every other text decoded to its command. After
\* a failed decode no device exchange was made for that command: none at all
\* for an 'exchange', only those of the earlier entries for a 'bulk'.
C17_CommandDecoding ==
    /\ (frame = "Text" /\ msg.query = "exchange" /\ msg.data.kind = "Command") =>
            LET h == msg.data.h
            IN  IF WellFormedCommandText(h)
                THEN /\ result # "MalformedCommand"
                     /\ rpc = "exchange" => command = CommandOfText(h)
                     /\ xlog # <<>> => xlog[1].cmd = CommandOfText(h)
                ELSE /\ rpc = "done" /\ result = "MalformedCommand"
                     /\ xlog = <<>> /\ out = <<>>
    /\ (frame = "Text" /\ msg.query = "bulk" /\ msg.data.kind = "CommandList") =>
            LET c == msg.data.l
            IN  /\ \A k \in 1..bulkIdx : c[k] # <<>> => WellFormedCommandText(c[k])
                /\ result = "MalformedCommand" =>
                        /\ bulkIdx < Len(c)
                        /\ ~WellFormedCommandText(c[bulkIdx + 1])
                        /\ Len(xlog) = Len(SelectSeq(SubSeq(c, 1, bulkIdx), NonEmptyText))
                        /\ out = <<>>
                /\ (rpc = "bulk" /\ bulkIdx < Len(c) /\ c[bulkIdx + 1] # <<>>
                        /\ ~WellFormedCommandText(c[bulkIdx + 1]))
                        => Len(xlog) = Len(SelectSeq(SubSeq(c, 1, bulkIdx), NonEmptyText))
    /\ result = "MalformedCommand" => msg.query \in {"exchange", "bulk"}

\* A text one byte longer than it declares was refused with no exchange made.
C17_Witness ==
    /\ msg.query = "exchange" /\ msg.data = Command(HexLong)
    /\ result = "MalformedCommand" /\ xlog = <<>>

\* C18: once an 'error' query is read the session has ended with a failure
\* whose message carries the text of the frame as it was read; nothing was
\* handed to the channel and no device exchange was made for it.
C18_ErrorQuery ==
    (frame = "Text" /\ msg.query = "error") =>
        /\ rpc = "done" /\ result = "ErrorQuery"
        /\ errText = text /\ from_str(text) = msg
        /\ out = <<>> /\ xlog = <<>>

\* An 'error' query whose text is not the canonical rendering of its envelope
\* ended a session that had handled an earlier message.
C18_Witness ==
    /\ result = "ErrorQuery" /\ errText.extra = 1 /\ errText.env.query = "error"
    /\ nreads = 2

\* C19: once a 'warning' query is read the engine is back at socket.read with
\* the session running, nothing was handed to the channel and no device
\* exchange was made for it.
C19_Warning ==
    (frame = "Text" /\ msg.query = "warning") =>
        /\ rpc = "read" /\ result = "Running" /\ errText = NoText
        /\ out = <<>> /\ xlog = <<>>

\* The last read the bound allows returned a warning and the session is still
\* open.
C19_Witness ==
    /\ frame = "Text" /\ msg.query = "warning" /\ nreads = MaxReads
    /\ rpc = "read" /\ result = "Running"

\* C20: an 'exchange' envelope whose data is absent or a sequence, and a
\* 'bulk' envelope whose data is absent or a single string, ended the session
\* with ProtocolViolation with no device exchange made and nothing handed to
\* the channel; ProtocolViolation is returned in no other case.
C20_ProtocolViolation ==
    LET m == from_str(text)
        wrongShape ==
            \/ m.query = "exchange" /\ m.data.kind \in {"None", "CommandList"}
            \/ m.query = "bulk" /\ m.data.kind \in {"None", "Command"}
    IN  /\ (frame = "Text" /\ wrongShape) =>
            /\ rpc = "done" /\ result = "ProtocolViolation"
            /\ xlog = <<>> /\ out = <<>>
        /\ result = "ProtocolViolation" => (frame = "Text" /\ wrongShape)

\* A 'bulk' envelope with a single command string was refused.
C20_Witness ==
    /\ msg.query = "bulk" /\ msg.data = Command(HexGetVersion)
    /\ result = "ProtocolViolation" /\ xlog = <<>> /\ out = <<>>

----------------------------------------------------------------------------
\* The inventory read off a run of record bytes, by the layout of a record:
\* total length, blocks (2), flags (2), two 32-byte hashes, name length, name.
RECURSIVE WellFormedRecords(_)
WellFormedRecords(b) ==
    \/ b = <<>>
    \/ /\ Len(b) >= 70
       /\ Len(b) >= 70 + b[70]
       /\ b[1] = 70 + b[70]
       /\ IsUtf8(SubSeq(b, 71, 70 + b[70]))
       /\ WellFormedRecords(SubSeq(b, 71 + b[70], Len(b)))

RECURSIVE RecordsOf(_)
RecordsOf(b) ==
    IF b = <<>> THEN <<>>
    ELSE <<[name |-> SubSeq(b, 71, 70 + b[70]),
            hash |-> SubSeq(b, 38, 69),
            hash_code_data |-> SubSeq(b, 6, 37),
            blocks |-> U16(b[2], b[3]),
            flags |-> U16(b[4], b[5])]>>
         \o RecordsOf(SubSeq(b, 71 + b[70], Len(b)))

\* The record bytes of a page (what follows the marker), and of some pages.
Body(page) == SubSeq(page, 2, Len(page))
BodiesOf(pages) == Flatten([k \in 1..Len(pages) |-> Body(pages[k])])

\* A page the decoder reads to its end: the marker and whole records.
WholePage(page) == page # <<>> /\ page[1] = 1 /\ WellFormedRecords(Body(page))

\* The pages of the plan the device serves: those returned and those to come
\* (the empty payload that ends the inventory is among those returned).
PlannedPages == served \o device.pages
TransportFailed == aresult = Err("TransportError")

\* C11 as stated: when the record bytes of a well-formed inventory are split
\* over the pages in any way, a call the transport did not fail returns the
\* list of the unsplit bytes.
C11_Original ==
    (device.scripted /\ apc = "done" /\ ~TransportFailed
        /\ WellFormedRecords(BodiesOf(PlannedPages)))
        => aresult = Ok(RecordsOf(BodiesOf(PlannedPages)))

\* C11, amended: when the record bytes of a well-formed inventory are split
\* over the pages at record boundaries (each page the marker and whole
\* records, possibly none), a call the transport did not fail returns the
\* list of the unsplit bytes, whatever the split.
C11_SplitInvariance ==
    (device.scripted /\ apc = "done" /\ ~TransportFailed
        /\ \A k \in 1..Len(PlannedPages) :
                PlannedPages[k] = <<>> \/ WholePage(PlannedPages[k]))
        => /\ aresult = Ok(RecordsOf(BodiesOf(PlannedPages)))
           /\ device.pages = <<>>

\* Two records came in two pages of one record each and the list has both.
C11_Witness ==
    /\ device.scripted /\ apc = "done" /\ aresult.tag = "Ok"
    /\ Len(served) = 3 /\ Len(served[1]) > 1 /\ Len(served[2]) > 1
    /\ Len(aresult.apps) = 2
    /\ aresult.apps[1].name = NameBTC /\ aresult.apps[2].name = NameAccent

\* The records of the pages in receipt order.
RECURSIVE RecordsOfPages(_)
RecordsOfPages(pages) ==
    IF pages = <<>> THEN <<>>
    ELSE RecordsOf(Body(Head(pages))) \o RecordsOfPages(Tail(pages))

\* C16: the first command sent is 'list apps' and every later one is
\* 'continue list apps'; the k+1st command was sent after the k-th payload,
\* which was not empty and was read to its end (the marker alone included);
\* once such a page is read to its end the call does not return before the
\* next command is sent; an empty payload is the last one, nothing is sent
\* after it and the call returns the list, which holds the records of all
\* pages in receipt order.
C16_Pagination ==
    /\ apc # "list" => (reqs # <<>> /\ reqs[1] = LIST_APPS_COMMAND)
    /\ \A k \in 2..Len(reqs) : reqs[k] = CONTINUE_LIST_APPS_COMMAND
    /\ Len(reqs) = Len(served) + (IF TransportFailed THEN 1 ELSE 0)
    /\ \A k \in 2..Len(reqs) : WholePage(served[k - 1])
    /\ (apc = "done" /\ served # <<>> /\ WholePage(served[Len(served)]))
            => TransportFailed
    /\ \A k \in 1..Len(served) :
            served[k] = <<>> =>
                /\ k = Len(served) /\ Len(reqs) = k
                /\ apc \in {"page", "done"}
                /\ apc = "done" => aresult = Ok(RecordsOfPages(served))
    /\ aresult.tag = "Ok" =>
            /\ served # <<>> /\ served[Len(served)] = <<>>
            /\ aresult.apps = RecordsOfPages(served)

\* Three requests: a page of two records, a page with the marker alone, then
\* the empty payload; the list holds the two records.
C16_Witness ==
    /\ reqs = <<LIST_APPS_COMMAND, CONTINUE_LIST_APPS_COMMAND, CONTINUE_LIST_APPS_COMMAND>>
    /\ Len(served) = 3
    /\ Len(served[1]) > 71 /\ served[2] = <<1>> /\ served[3] = <<>>
    /\ aresult.tag = "Ok" /\ Len(aresult.apps) = 2

----------------------------------------------------------------------------
\* The identity payload as the device meant it: the mode by the top four bits
\* of the target id, and the payloads every field of which is in place.
IsAppId(tid) == tid[1] \div 16 = 3
StripNul(m) == IF m # <<>> /\ m[Len(m)] = 0 THEN SubSeq(m, 1, Len(m) - 1) ELSE m

WellFormedApp(s) ==
    /\ IsAppId(s.tid) /\ IsUtf8(s.version)
    /\ Len(s.rest) = 1 /\ s.rest[1] # <<>> /\ IsUtf8(StripNul(s.rest[1]))
WellFormedBootLong(s) ==
    /\ ~IsAppId(s.tid) /\ IsUtf8(s.version)
    /\ Len(s.rest) = 2 /\ Len(s.rest[1]) >= 5 /\ IsUtf8(s.rest[1])
    /\ Len(s.rest[2]) = 4
WellFormedBootShort(s) ==
    /\ ~IsAppId(s.tid) /\ IsUtf8(s.version)
    /\ Len(s.rest) = 1 /\ Len(s.rest[1]) = 4
WellFormedIdentity(s) ==
    WellFormedApp(s) \/ WellFormedBootLong(s) \/ WellFormedBootShort(s)

\* The call has returned after the device answered with the whole payload, or
\* with a payload that stops short.
Answered == ipc = "done" /\ sent # NoSent
Complete == ver_answer = IdentityBytes(sent)
Truncated == Len(ver_answer) < Len(IdentityBytes(sent))

\* C12: no read of the identity decoder goes past the end of the payload, and
\* a payload that is a well-formed one (application mode, bootloader mode with
\* a long or a short part1) stopped short at any position makes the call
\* return the error "Not enough data" (TruncatedData).
C12_Truncation ==
    /\ reach <= Len(ver_answer)
    /\ (Answered /\ WellFormedIdentity(sent) /\ Truncated)
            => dresult = InfoErr("Not enough data")

\* A bootloader payload whose last field lacks its last byte was refused.
C12_Witness ==
    /\ Answered /\ WellFormedBootLong(sent)
    /\ Len(ver_answer) = Len(IdentityBytes(sent)) - 1
    /\ dresult = InfoErr("Not enough data")

\* The text field the decoder comes to that is no UTF8 text, if any: the
\* version, the bootloader part1 of five bytes or more, the MCU string.
InvalidTextField ==
    \/ ~IsUtf8(sent.version)
    \/ /\ IsUtf8(sent.version) /\ IsAppId(sent.tid)
       /\ Len(sent.rest) = 1 /\ sent.rest[1] # <<>>
       /\ ~IsUtf8(StripNul(sent.rest[1]))
    \/ /\ IsUtf8(sent.version) /\ ~IsAppId(sent.tid)
       /\ Len(sent.rest) >= 1 /\ Len(sent.rest[1]) >= 5
       /\ ~IsUtf8(sent.rest[1])

\* C13: a whole payload with a text field that is no UTF8 text makes the call
\* return the encoding error to its caller.
C13_EncodingError ==
    (Answered /\ Complete /\ InvalidTextField) => dresult = InfoErr("Utf8Error")

\* C14: a whole well-formed payload of application mode decodes to the record
\* with is_bootloader false, se_version the version string, se_target_id the
\* target id and mcu_version the MCU string less one trailing NUL.
C14_ApplicationMode ==
    (Answered /\ Complete /\ WellFormedApp(sent)) =>
        dresult = InfoOk([target_id |-> U32(sent.tid),
                          version |-> sent.version,
                          flags |-> sent.flags,
                          is_bootloader |-> FALSE,
                          se_version |-> Some(sent.version),
                          se_target_id |-> U32(sent.tid),
                          mcu_version |-> Some(StripNul(sent.rest[1]))])

\* The example: target id 0x31000000, version "2.1.0", one flag byte, MCU
\* string "1.16".
C14_Witness ==
    /\ sent = [tid |-> <<49, 0, 0, 0>>, version |-> Version210, flags |-> <<0>>,
               rest |-> <<Mcu116>>]
    /\ dresult.tag = "Ok"
    /\ ~dresult.info.is_bootloader
    /\ dresult.info.se_version = Some(<<50, 46, 49, 46, 48>>)
    /\ dresult.info.se_target_id = [high |-> 12544, low |-> 0]
    /\ dresult.info.mcu_version = Some(<<49, 46, 49, 54>>)

\* C15: in bootloader mode a record, when one is returned, has no mcu_version
\* and: with a part1 of five bytes or more, se_version is part1 and
\* se_target_id the value of the second field, which has four bytes; else
\* part1 has four bytes, se_target_id is its value and there is no se_version.
\* A whole payload of that shape does yield the record; one with a part1 of
\* 0 to 3 bytes, or with a second field that has not four bytes, ends the
\* call in failure and yields none.
C15_BootloaderMode ==
    (Answered /\ ~IsAppId(sent.tid)) =>
        /\ dresult.tag = "Ok" =>
            /\ dresult.info.is_bootloader
            /\ dresult.info.target_id = U32(sent.tid)
            /\ dresult.info.mcu_version = None
            /\ Len(sent.rest) >= 1
            /\ IF Len(sent.rest[1]) >= 5
               THEN /\ Len(sent.rest) = 2 /\ Len(sent.rest[2]) = 4
                    /\ dresult.info.se_version = Some(sent.rest[1])
                    /\ dresult.info.se_target_id = U32(sent.rest[2])
               ELSE /\ Len(sent.rest[1]) = 4
                    /\ dresult.info.se_version = None
                    /\ dresult.info.se_target_id = U32(sent.rest[1])
        /\ (Complete /\ (WellFormedBootLong(sent) \/ WellFormedBootShort(sent)))
                => dresult.tag = "Ok"
        /\ (Complete /\ IsUtf8(sent.version) /\ Len(sent.rest) >= 1
                /\ \/ Len(sent.rest[1]) < 4
                   \/ /\ Len(sent.rest[1]) >= 5 /\ IsUtf8(sent.rest[1])
                      /\ Len(sent.rest) = 2 /\ Len(sent.rest[2]) # 4)
                => dresult.tag \in {"Err", "Panic"}

\* A bootloader with the version "1.0.0" in part1 and the target id
\* 0x33000004 in the second field.
C15_Witness ==
    /\ Answered /\ Complete
    /\ sent.rest = <<(<<49, 46, 48, 46, 48>>), (<<51, 0, 0, 4>>)>>
    /\ dresult.tag = "Ok"
    /\ dresult.info.se_version = Some(<<49, 46, 48, 46, 48>>)
    /\ dresult.info.se_target_id = [high |-> 13056, low |-> 4]
    /\ dresult.info.mcu_version = None

\* C21: a frame that is no text frame (binary, ping, pong, close, raw frame)
\* and a text frame that does not parse as an envelope each end the session
\* with a failure, UnsupportedFrame for the former; nothing was handed to the
\* channel and no device exchange was made for it.
C21_UnsupportedFrame ==
    /\ frame \in NonTextKinds =>
            /\ rpc = "done" /\ result = "UnsupportedFrame"
            /\ out = <<>> /\ xlog = <<>>
    /\ (frame = "Text" /\ msg = NoMsg) =>
            /\ rpc = "done" /\ result = "JsonError"
            /\ out = <<>> /\ xlog = <<>>
    /\ result = "UnsupportedFrame" => frame \in NonTextKinds

\* A ping ended a session that had handled an earlier message.
C21_Witness ==
    /\ frame = "Ping" /\ nreads = 2
    /\ result = "UnsupportedFrame" /\ out = <<>> /\ xlog = <<>>

\* C22: when the device exchange of an 'exchange' envelope fails at the
\* transport level the session has ended with the transport error and nothing
\* was handed to the channel for the envelope.
C22_ExchangeTransportFailure ==
    (msg.query = "exchange" /\ xlog # <<>> /\ ~xlog[Len(xlog)].ok) =>
        /\ Len(xlog) = 1
        /\ rpc = "done" /\ result = "TransportError"
        /\ out = <<>>

\* The transport failed on the command of nonce 7 after an earlier message.
C22_Witness ==
    /\ msg.query = "exchange" /\ msg.nonce = 7 /\ nreads = 2
    /\ Len(xlog) = 1 /\ ~xlog[1].ok
    /\ result = "TransportError" /\ out = <<>>

\* The pages received so far are all well formed and not empty, and the
\* transport has not failed.
WellFormedPages ==
    {<<1>> \o Flatten(rs) : rs \in SeqsUpTo(GoodRecords, MaxRecords)}
AllWellFormed ==
    /\ ~TransportFailed
    /\ \A k \in 1..Len(served) : served[k] \in WellFormedPages

\* One record iteration that does not return moves the cursor forward by at
\* least n bytes, and not past the end of the page.
RecordAdvance(n) ==
    (apc = "record" /\ cur < Len(data) /\ apc' = "record") =>
        /\ cur' >= cur + n
        /\ cur' <= Len(data)
        /\ Len(installed_apps') = Len(installed_apps) + 1

\* C23 as stated: every record iteration advances the cursor by 71 bytes or
\* more.
C23_Original == [][RecordAdvance(71)]_vars

\* C23: the app-inventory decoder comes to an end once the device has returned
\* an empty payload or a failure occurred: a record iteration advances the
\* cursor by at least 70 bytes (the header, plus the name), one request is made
\* per page, Ok is returned on the first empty payload only, and while every
\* page is well formed and not empty the decoder has not returned.
C23_Termination ==
    /\ [][RecordAdvance(70)]_vars
    /\ [](/\ Len(reqs) = npages
          /\ Len(reqs) = Len(served) + (IF TransportFailed THEN 1 ELSE 0))
    /\ [](aresult.tag = "Ok" =>
            /\ served # <<>> /\ served[Len(served)] = <<>>
            /\ \A k \in 1..(Len(served) - 1) : served[k] # <<>>)
    /\ [](AllWellFormed => apc # "done")
    /\ <>(apc = "done")

\* Two pages were decoded, one of them holding a record with an empty name
\* (70 bytes), and the empty third payload ended the call.
C23_Witness ==
    /\ apc = "done" /\ aresult.tag = "Ok"
    /\ Len(served) = 3 /\ served[3] = <<>>
    /\ Len(aresult.apps) = 2
    /\ aresult.apps[1].name = <<>>
    /\ aresult.apps[2].name = NameBTC

\* C24: in application mode a whole identity payload whose MCU field has
\* declared length 0 makes the decode return a record with an empty
\* mcu_version or an error value, and never abort; the decoder has read no
\* byte past the length byte of the field.
C24_EmptyMcu ==
    (/\ Answered /\ Complete
     /\ IsAppId(sent.tid) /\ IsUtf8(sent.version)
     /\ sent.rest = << <<>> >>) =>
        /\ dresult.tag \in {"Ok", "Err"}
        /\ dresult.tag = "Ok" => dresult.info.mcu_version = Some(<<>>)
        /\ reach <= Len(ver_answer)

====
